---- MODULE Spec2Model ----
(***************************************************************************)
(* Model of the IoT backend of Esp8266-DHT22 (iot-backend/server.js): the  *)
(* ThingSpeak webhook (rate limiters, secret check, validation, insert),   *)
(* the three read endpoints and the two rate limiters.                     *)
(*                                                                         *)
(* JavaScript values are records [t, n, s]: t is the type tag, n the       *)
(* numeric value (numbers, and the sign of an Infinity), s the characters  *)
(* of a string (a tuple of one-character strings).  The numeric grid of    *)
(* the model is the integers: every integer is an exact double, so sums,   *)
(* comparisons and toFixed are computed exactly as the engine does.        *)
(***************************************************************************)
EXTENDS Integers, Sequences, FiniteSets

(* ------------------------------ bounds --------------------------------- *)

\* Requests the client sends in one behaviour.
MaxRequests == 2

\* Webhook handlers suspended on their insert at the same time.
MaxInflight == 2

\* Last instant of the clock.
MaxTime == 2

(* ------------------------- program constants --------------------------- *)

\* rateLimit({ max: 100 }) of the global limiter.
limiterMax == 100

\* rateLimit({ max: 10 }) of the webhook limiter.
webhookLimiterMax == 10

\* parseInt(req.query.limit) || 100
defaultLimit == 100

\* const maxLimit = 1000
maxLimit == 1000

\* Instants of the clock per calendar day.
DayLen == 2

(* --------------------------- JavaScript values ------------------------- *)

Undef == [t |-> "undefined", n |-> 0, s |-> <<>>]
Null == [t |-> "null", n |-> 0, s |-> <<>>]
NaN == [t |-> "NaN", n |-> 0, s |-> <<>>]
Num(k) == [t |-> "number", n |-> k, s |-> <<>>]
Inf(sign) == [t |-> "Infinity", n |-> sign, s |-> <<>>]
Str(chars) == [t |-> "string", n |-> 0, s |-> chars]

Digits == <<"0", "1", "2", "3", "4", "5", "6", "7", "8", "9">>

IsDigit(c) == \E d \in 1..10 : Digits[d] = c

DigitVal(c) == (CHOOSE d \in 1..10 : Digits[d] = c) - 1

IsSpace(c) == c = " "

\* Number::toString of a non-negative integer.
RECURSIVE NatToStr(_)
NatToStr(k) ==
    IF k < 10 THEN <<Digits[k + 1]>>
    ELSE NatToStr(k \div 10) \o <<Digits[(k % 10) + 1]>>

\* Number::toString of an integer.
IntToStr(k) == IF k < 0 THEN <<"-">> \o NatToStr(-k) ELSE NatToStr(k)

\* ToString(v), the first step of parseFloat and parseInt.
ToString(v) ==
    CASE v.t = "undefined" -> <<"u", "n", "d", "e", "f", "i", "n", "e", "d">>
      [] v.t = "null" -> <<"n", "u", "l", "l">>
      [] v.t = "NaN" -> <<"N", "a", "N">>
      [] v.t = "Infinity" ->
            (IF v.n < 0 THEN <<"-">> ELSE <<>>)
                \o <<"I", "n", "f", "i", "n", "i", "t", "y">>
      [] v.t = "number" -> IntToStr(v.n)
      [] OTHER -> v.s

\* The string without its leading white space.
RECURSIVE TrimStart(_)
TrimStart(s) ==
    IF s # <<>> /\ IsSpace(Head(s)) THEN TrimStart(Tail(s)) ELSE s

\* Length of the longest prefix of s made of decimal digits.
RECURSIVE DigitPrefixLen(_)
DigitPrefixLen(s) ==
    IF s # <<>> /\ IsDigit(Head(s)) THEN 1 + DigitPrefixLen(Tail(s)) ELSE 0

\* Value of a sequence of decimal digits.
RECURSIVE DigitsValue(_)
DigitsValue(s) ==
    IF s = <<>> THEN 0
    ELSE 10 * DigitsValue(SubSeq(s, 1, Len(s) - 1)) + DigitVal(s[Len(s)])

StartsWith(s, p) == Len(s) >= Len(p) /\ SubSeq(s, 1, Len(p)) = p

\* The sign a numeric literal starts with, and the literal without it.
SignOf(s) == IF s # <<>> /\ Head(s) = "-" THEN -1 ELSE 1

Unsigned(s) == IF s # <<>> /\ Head(s) \in {"-", "+"} THEN Tail(s) ELSE s

\* parseFloat: leading white space is skipped, then the longest prefix that
\* is a decimal literal (or Infinity) is converted; trailing characters are
\* ignored; no such prefix gives NaN.
parseFloat(v) ==
    LET s == TrimStart(ToString(v))
        body == Unsigned(s)
        k == DigitPrefixLen(body)
    IN  IF StartsWith(body, <<"I", "n", "f", "i", "n", "i", "t", "y">>)
        THEN Inf(SignOf(s))
        ELSE IF k = 0 THEN NaN
        ELSE Num(SignOf(s) * DigitsValue(SubSeq(body, 1, k)))

\* parseInt (radix 10): as parseFloat, without the Infinity literal.
parseInt(v) ==
    LET s == TrimStart(ToString(v))
        body == Unsigned(s)
        k == DigitPrefixLen(body)
    IN  IF k = 0 THEN NaN
        ELSE Num(SignOf(s) * DigitsValue(SubSeq(body, 1, k)))

isNaN(v) == v.t = "NaN"

\* v < k and v > k for a numeric v: every comparison with NaN is false.
Lt(v, k) ==
    CASE v.t = "number" -> v.n < k
      [] v.t = "Infinity" -> v.n < 0
      [] OTHER -> FALSE

Gt(v, k) ==
    CASE v.t = "number" -> v.n > k
      [] v.t = "Infinity" -> v.n > 0
      [] OTHER -> FALSE

\* ToBoolean(v): undefined, null, NaN, 0 and the empty string are falsy.
Truthy(v) ==
    CASE v.t \in {"undefined", "null", "NaN"} -> FALSE
      [] v.t = "number" -> v.n # 0
      [] v.t = "string" -> v.s # <<>>
      [] OTHER -> TRUE

\* a || b
Or(a, b) == IF Truthy(a) THEN a ELSE b

\* Math.min(a, b) on numbers.
MathMin(a, b) == IF a < b THEN a ELSE b

\* Date::toISOString of the instant t, and the store's reading of a
\* timestamp literal (-1: not a timestamp).
toISOString(t) == <<"T">> \o NatToStr(t)

ParseTimestamp(s) ==
    IF Len(s) >= 2 /\ Head(s) = "T" /\ DigitPrefixLen(Tail(s)) = Len(s) - 1
    THEN DigitsValue(Tail(s))
    ELSE -1

\* today.setHours(0, 0, 0, 0): the first instant of the day of t.
StartOfDay(t) == (t \div DayLen) * DayLen

\* Mutant of toFixed2: the hundredths are cut off, not rounded.
toFixed2_Truncated(sum, count) ==
    LET mag == IF sum < 0 THEN -sum ELSE sum
        q == (100 * mag) \div count
        frac == q % 100
    IN  Str((IF sum < 0 THEN <<"-">> ELSE <<>>)
            \o NatToStr(q \div 100) \o <<".">>
            \o <<Digits[(frac \div 10) + 1], Digits[(frac % 10) + 1]>>)

\* Number::toFixed(2) of the quotient sum / count: the sign is split off,
\* the magnitude is rounded to the nearest hundredth (the larger one on a
\* tie) and printed with two decimals.
toFixed2(sum, count) ==
    LET mag == IF sum < 0 THEN -sum ELSE sum
        q == (2 * 100 * mag + count) \div (2 * count)
        frac == q % 100
    IN  Str((IF sum < 0 THEN <<"-">> ELSE <<>>)
            \o NatToStr(q \div 100) \o <<".">>
            \o <<Digits[(frac \div 10) + 1], Digits[(frac % 10) + 1]>>)

(* -------------------------------- state -------------------------------- *)

VARIABLES
    env,          \* process.env.WEBHOOK_SECRET
    client,       \* the requests the clients of this run send
    store,        \* rows of the readings table, in insertion order
    limiterHits,  \* hits the global limiter counts in its window
    webhookHits,  \* hits the webhook limiter counts in its window
    now,          \* the clock
    pend,         \* webhook handlers suspended on their insert
    last,         \* the last response sent, with its request
    nreq,         \* requests received so far
    nresp         \* responses sent so far

vars ==
    <<env, client, store, limiterHits, webhookHits, now, pend, last, nreq, nresp>>

NoRequest ==
    [route |-> "none", secret |-> Undef, parsed |-> TRUE, temperature |-> Undef,
     humidity |-> Undef, created_at |-> Undef, limit |-> Undef]

WebhookRequest(secret, parsed, temperature, humidity, created_at) ==
    [route |-> "POST /webhook/thingspeak", secret |-> secret, parsed |-> parsed,
     temperature |-> temperature, humidity |-> humidity,
     created_at |-> created_at, limit |-> Undef]

GetRequest(route, limit) == [NoRequest EXCEPT !.route = route, !.limit = limit]

\* A response: the status, the error or message text of a failure, and the
\* members of a success body (data as a sequence of rows, isNull for a
\* data member that is null; stats as a sequence of at most one object).
Response(status, error) ==
    [status |-> status, error |-> error, success |-> FALSE, count |-> -1,
     data |-> <<>>, isNull |-> FALSE, stats |-> <<>>]

Success(status, count, data, isNull, stats) ==
    [status |-> status, error |-> "", success |-> TRUE, count |-> count,
     data |-> data, isNull |-> isNull, stats |-> stats]

NoResponse == Response(0, "")

(* ------------------------------- inputs -------------------------------- *)

\* process.env.WEBHOOK_SECRET when it is set, and the values it can have.
ConfiguredSecret == Str(<<"s">>)

SecretConfigs == {ConfiguredSecret, Undef}

\* Values of the x-webhook-secret header: the configured one, another one,
\* and no header.
Secrets == {ConfiguredSecret, Str(<<"w">>), Undef}

\* Values of body.temperature and body.humidity.
TemperatureInputs ==
    {Undef, Num(-51), Num(-50), Num(100), Num(101), Str(<<"a">>),
     Str(<<"8", "x">>), Str(<<"I", "n", "f", "i", "n", "i", "t", "y">>)}

HumidityInputs ==
    {Undef, Null, Num(-1), Num(0), Num(100), Num(101)}

\* Values of body.created_at: absent, empty, not a timestamp, a timestamp.
CreatedAtInputs ==
    {Undef, Str(<<>>), Str(<<"x">>), Str(toISOString(0)), Str(toISOString(MaxTime))}

\* Values of the limit query parameter.
LimitInputs ==
    {Undef, Str(<<"0">>), Str(<<"-", "1">>), Str(<<"2">>),
     Str(<<"1", "0", "0", "1">>)}

\* Every push of the input sets, and one whose body express.json rejects.
ProbeRequests ==
    {WebhookRequest(s, TRUE, t, h, c) :
        s \in Secrets, t \in TemperatureInputs, h \in HumidityInputs,
        c \in CreatedAtInputs}
    \cup {WebhookRequest(ConfiguredSecret, FALSE, Undef, Undef, Undef)}

\* The read requests of the dashboard.
ReadRequests ==
    {GetRequest("GET /api/readings", l) : l \in LimitInputs}
    \cup {GetRequest(r, Undef) :
            r \in {"GET /api/readings/latest", "GET /api/stats/today",
                   "GET /", "GET /unknown"}}

\* Pushes of the sensor: a reading the server stamps, and one whose
\* number is followed by a unit, stamped by the producer with the last
\* instant.
SensorRequests ==
    {WebhookRequest(ConfiguredSecret, TRUE, Num(30), Num(0), Undef),
     WebhookRequest(ConfiguredSecret, TRUE, Str(<<"8", "x">>), Num(100),
                    Str(toISOString(MaxTime)))}

\* A row of the table.
Row(id, temperature, humidity, created_at) ==
    [id |-> id, temperature |-> Num(temperature), humidity |-> Num(humidity),
     created_at |-> created_at, source |-> "thingspeak"]

\* The table when the service starts: empty, or holding the readings of
\* two earlier pushes.
StartStores == {<<>>, <<Row(1, 20, 50, 0), Row(2, 25, 100, 1)>>}

\* Requests sent to a service whose limiters are about to close.
BurstRequests ==
    {WebhookRequest(ConfiguredSecret, TRUE, Num(100), Num(0), Undef),
     WebhookRequest(Str(<<"w">>), TRUE, Num(101), Undef, Undef),
     GetRequest("GET /api/readings/latest", Undef)}

\* The service after start, serving the sensor and the dashboard.
InitFresh ==
    /\ env = ConfiguredSecret
    /\ client = SensorRequests \cup ReadRequests
    /\ store \in StartStores
    /\ limiterHits = 0
    /\ webhookHits = 0

\* The service after start, probed with one kind of push.
InitProbe ==
    /\ env \in SecretConfigs
    /\ \E rq \in ProbeRequests : client = {rq}
    /\ store = <<>>
    /\ limiterHits = 0
    /\ webhookHits = 0

\* The service late in a window of its limiters.
InitBurst ==
    /\ env = ConfiguredSecret
    /\ client = BurstRequests
    /\ store = <<>>
    /\ limiterHits \in {limiterMax - 1, limiterMax}
    /\ webhookHits \in {0, webhookLimiterMax - 1, webhookLimiterMax}

Init ==
    /\ InitFresh \/ InitProbe \/ InitBurst
    /\ now = 1
    /\ pend = <<>>
    /\ last = [req |-> NoRequest, resp |-> NoResponse]
    /\ nreq = 0
    /\ nresp = 0

(* ---------------------------- rate limiters ---------------------------- *)

\* Mutant of OverLimit: the hit that exceeds max by one still passes.
OverLimit_OneMore(hits, max) == hits + 1 > max + 1

\* A limiter lets the hit through while the count, this hit included, does
\* not exceed max.
OverLimit(hits, max) == hits + 1 > max

GlobalLimited == OverLimit(limiterHits, limiterMax)

WebhookLimited == OverLimit(webhookHits, webhookLimiterMax)

\* The message texts are those of the source, written without diacritics.
TooManyRequests == Response(429, "Demasiadas solicitudes, intenta mas tarde")

WebhookTooMany == Response(429, "Rate limit excedido en webhook")

\* The global handler of errors passed to next(err).
InternalError == Response(500, "Error interno del servidor")

(* ------------------------------- webhook ------------------------------- *)

\* secret !== process.env.WEBHOOK_SECRET
Unauthorized(secret) == secret # env

\* temperature === undefined || humidity === undefined
MissingField(temperature, humidity) == temperature = Undef \/ humidity = Undef

\* Mutant of OutOfRange: the upper bound of the temperature is not checked.
OutOfRange_NoUpperTemperature(temp, hum) ==
    \/ isNaN(temp)
    \/ isNaN(hum)
    \/ Lt(temp, -50)
    \/ Lt(hum, 0)
    \/ Gt(hum, 100)

\* Mutant of OutOfRange: the isNaN tests are left out.
OutOfRange_NoNaNTest(temp, hum) ==
    \/ Lt(temp, -50)
    \/ Gt(temp, 100)
    \/ Lt(hum, 0)
    \/ Gt(hum, 100)

\* isNaN(temp) || isNaN(hum) || temp < -50 || temp > 100 || hum < 0 || hum > 100
OutOfRange(temp, hum) ==
    \/ isNaN(temp)
    \/ isNaN(hum)
    \/ Lt(temp, -50)
    \/ Gt(temp, 100)
    \/ Lt(hum, 0)
    \/ Gt(hum, 100)

\* Mutant of InsertRow: the two readings are exchanged.
InsertRow_Exchanged(temp, hum, created_at) ==
    [temperature |-> hum, humidity |-> temp,
     created_at |-> Or(created_at, Str(toISOString(now))),
     source |-> "thingspeak"]

\* The object handed to insert().
InsertRow(temp, hum, created_at) ==
    [temperature |-> temp, humidity |-> hum,
     created_at |-> Or(created_at, Str(toISOString(now))),
     source |-> "thingspeak"]

\* Mutant of WebhookChecks: the body is validated before the secret.
WebhookChecks_BodyFirst(rq) ==
    IF MissingField(rq.temperature, rq.humidity)
    THEN Response(400, "Faltan campos requeridos")
    ELSE IF OutOfRange(parseFloat(rq.temperature), parseFloat(rq.humidity))
    THEN Response(400, "Valores fuera de rango")
    ELSE IF Unauthorized(rq.secret) THEN Response(401, "Unauthorized")
    ELSE NoResponse

\* The handler up to its first suspension: the response it sends, or
\* NoResponse when it has issued the insert and waits.
\* Mutant of WebhookChecks: the range of the values is not looked at.
WebhookChecks_RangeSkipped(rq) ==
    IF Unauthorized(rq.secret) THEN Response(401, "Unauthorized")
    ELSE IF MissingField(rq.temperature, rq.humidity)
    THEN Response(400, "Faltan campos requeridos")
    ELSE NoResponse

WebhookChecks(rq) ==
    IF Unauthorized(rq.secret) THEN Response(401, "Unauthorized")
    ELSE IF MissingField(rq.temperature, rq.humidity)
    THEN Response(400, "Faltan campos requeridos")
    ELSE IF OutOfRange(parseFloat(rq.temperature), parseFloat(rq.humidity))
    THEN Response(400, "Valores fuera de rango")
    ELSE NoResponse

\* The handler suspended on the insert of its row.
Suspended(rq) ==
    [req |-> rq, phase |-> "sent", data |-> <<>>,
     row |-> InsertRow(parseFloat(rq.temperature), parseFloat(rq.humidity),
                       rq.created_at)]

\* POST /webhook/thingspeak: express.json, the global limiter, the webhook
\* limiter, then the handler up to the insert.
Webhook(rq) ==
    /\ rq.route = "POST /webhook/thingspeak"
    /\ nreq < MaxRequests
    /\ Len(pend) < MaxInflight
    /\ nreq' = nreq + 1
    /\ UNCHANGED <<env, client, store, now>>
    /\ IF ~rq.parsed
       THEN /\ last' = [req |-> rq, resp |-> InternalError]
            /\ nresp' = nresp + 1
            /\ UNCHANGED <<limiterHits, webhookHits, pend>>
       ELSE /\ limiterHits' = limiterHits + 1
            /\ IF GlobalLimited
               THEN /\ last' = [req |-> rq, resp |-> TooManyRequests]
                    /\ nresp' = nresp + 1
                    /\ UNCHANGED <<webhookHits, pend>>
               ELSE /\ webhookHits' = webhookHits + 1
                    /\ IF WebhookLimited
                       THEN /\ last' = [req |-> rq, resp |-> WebhookTooMany]
                            /\ nresp' = nresp + 1
                            /\ UNCHANGED pend
                       ELSE IF WebhookChecks(rq) # NoResponse
                       THEN /\ last' = [req |-> rq, resp |-> WebhookChecks(rq)]
                            /\ nresp' = nresp + 1
                            /\ UNCHANGED pend
                       ELSE /\ pend' = Append(pend, Suspended(rq))
                            /\ UNCHANGED <<last, nresp>>

\* The row the table holds for an inserted object.
StoredRow(row) ==
    [id |-> Len(store) + 1, temperature |-> row.temperature,
     humidity |-> row.humidity,
     created_at |-> ParseTimestamp(ToString(row.created_at)),
     source |-> row.source]

\* Mutant of AppendRow: a row of the same instant and source is replaced.
AppendRow_Upsert(rows, row) ==
    IF \E k \in 1..Len(rows) :
            rows[k].created_at = row.created_at /\ rows[k].source = row.source
    THEN LET k == CHOOSE j \in 1..Len(rows) :
                    rows[j].created_at = row.created_at /\ rows[j].source = row.source
         IN  [rows EXCEPT ![k] = [row EXCEPT !.id = rows[k].id]]
    ELSE Append(rows, row)

\* Mutant of AppendRow: the table keeps its two newest rows.
AppendRow_KeepTwo(rows, row) ==
    IF Len(rows) >= 2 THEN Tail(rows) \o <<row>> ELSE Append(rows, row)

\* insert([...]) on the table: the row is added, no row is touched.
AppendRow(rows, row) == Append(rows, row)

\* The store serves the insert of handler i: the row is appended and
\* returned, or the call fails (the store is down, or created_at is no
\* timestamp) with an error result or, for a failure of the call itself,
\* an exception.
StoreInsert(i, failure) ==
    /\ i \in 1..Len(pend)
    /\ pend[i].phase = "sent"
    /\ LET row == pend[i].row
           bad == ParseTimestamp(ToString(row.created_at)) < 0
       IN  IF failure = "none" /\ ~bad
           THEN /\ store' = AppendRow(store, StoredRow(row))
                /\ pend' = [pend EXCEPT ![i].phase = "ok",
                                        ![i].data = <<StoredRow(row)>>]
           ELSE /\ store' = store
                /\ pend' = [pend EXCEPT
                              ![i].phase = IF failure = "throw" THEN "throw" ELSE "error"]
    /\ UNCHANGED <<env, client, limiterHits, webhookHits, now, last, nreq, nresp>>

RemoveAt(s, i) == SubSeq(s, 1, i - 1) \o SubSeq(s, i + 1, Len(s))

\* Mutant of InsertResponse: the error of the insert is not looked at.
InsertResponse_ErrorIgnored(p) ==
    CASE p.phase = "throw" -> InternalError
      [] OTHER -> Success(201, -1, p.data, FALSE, <<>>)

\* The response of the handler once its insert has returned.
InsertResponse(p) ==
    CASE p.phase = "throw" -> InternalError
      [] p.phase = "error" -> Response(500, "Error al guardar datos")
      [] OTHER -> Success(201, -1, <<p.data[1]>>, FALSE, <<>>)

\* Mutant of WebhookResume: an exception of the insert ends the handler
\* without a response.
WebhookResume_ThrowEscapes(i) ==
    /\ i \in 1..Len(pend)
    /\ pend[i].phase # "sent"
    /\ IF pend[i].phase = "throw"
       THEN UNCHANGED <<last, nresp>>
       ELSE /\ last' = [req |-> pend[i].req, resp |-> InsertResponse(pend[i])]
            /\ nresp' = nresp + 1
    /\ pend' = RemoveAt(pend, i)
    /\ UNCHANGED <<env, client, store, limiterHits, webhookHits, now, nreq>>

\* Handler i resumes after its insert and responds.
WebhookResume(i) ==
    /\ i \in 1..Len(pend)
    /\ pend[i].phase # "sent"
    /\ last' = [req |-> pend[i].req, resp |-> InsertResponse(pend[i])]
    /\ nresp' = nresp + 1
    /\ pend' = RemoveAt(pend, i)
    /\ UNCHANGED <<env, client, store, limiterHits, webhookHits, now, nreq>>

(* ------------------------------- queries ------------------------------- *)

\* The answers of order('created_at', { ascending: false }) on the rows
\* at the indices ix: by non-increasing created_at, rows of one instant in
\* any order.
RECURSIVE DescendingOf(_, _)
DescendingOf(rows, ix) ==
    IF ix = {} THEN {<<>>}
    ELSE UNION {{<<rows[i]>> \o rest : rest \in DescendingOf(rows, ix \ {i})} :
                   i \in {k \in ix :
                            \A j \in ix : rows[k].created_at >= rows[j].created_at}}

Descending(rows) == DescendingOf(rows, 1..Len(rows))

\* limit(n) of the store.
Limit(rows, n) == SubSeq(rows, 1, MathMin(n, Len(rows)))

\* Mutant of Reverse: the rows stay in the order of the query.
Reverse_None(rows) == rows

\* Array::reverse
Reverse(rows) == [i \in 1..Len(rows) |-> rows[Len(rows) + 1 - i]]

\* parseInt(req.query.limit) || 100, then Math.min(limit, maxLimit)
EffectiveLimit(limit) ==
    MathMin(Or(parseInt(limit), Num(defaultLimit)).n, maxLimit)

\* A request that only reads: the global limiter, then the response.
Respond(rq, resp) ==
    /\ rq \in client
    /\ nreq < MaxRequests
    /\ nreq' = nreq + 1
    /\ limiterHits' = limiterHits + 1
    /\ last' = [req |-> rq, resp |-> IF GlobalLimited THEN TooManyRequests ELSE resp]
    /\ nresp' = nresp + 1
    /\ UNCHANGED <<env, client, store, webhookHits, now, pend>>

\* GET /api/readings: up tells whether the store answers; the store
\* refuses a negative limit.
GetReadings(limit, up) ==
    \E rows \in Descending(store) :
        Respond(GetRequest("GET /api/readings", limit),
                IF ~up \/ EffectiveLimit(limit) < 0
                THEN Response(500, "Error al obtener datos")
                ELSE LET data == Limit(rows, EffectiveLimit(limit))
                     IN  Success(200, Len(data), Reverse(data), FALSE, <<>>))

\* GET /api/readings/latest: single() is an error unless the result has
\* exactly one row.
GetLatest(up) ==
    \E rows \in Descending(store) :
        Respond(GetRequest("GET /api/readings/latest", Undef),
                IF ~up \/ Len(Limit(rows, 1)) # 1
                THEN Response(500, "Error al obtener datos")
                ELSE Success(200, -1, Limit(rows, 1), FALSE, <<>>))

\* gte('created_at', today.toISOString()): the rows of the window.
Today(rows) ==
    SelectSeq(rows,
        LAMBDA r : r.created_at >= ParseTimestamp(toISOString(StartOfDay(now))))

RECURSIVE Sum(_)
Sum(xs) == IF xs = <<>> THEN 0 ELSE Head(xs) + Sum(Tail(xs))

\* Math.min(...xs) and Math.max(...xs) of a non-empty array.
Min(xs) == CHOOSE x \in {xs[i] : i \in 1..Len(xs)} :
                \A i \in 1..Len(xs) : x <= xs[i]

Max(xs) == CHOOSE x \in {xs[i] : i \in 1..Len(xs)} :
                \A i \in 1..Len(xs) : x >= xs[i]

\* min, max and avg of an array of numbers.
Aggregate(xs) ==
    [min |-> Num(Min(xs)), max |-> Num(Max(xs)),
     avg |-> toFixed2(Sum(xs), Len(xs))]

\* The stats object of the rows of the window.
Stats(data) ==
    IF Len(data) = 0
    THEN [count |-> 0,
          temperature |-> [min |-> Null, max |-> Null, avg |-> Null],
          humidity |-> [min |-> Null, max |-> Null, avg |-> Null]]
    ELSE [count |-> Len(data),
          temperature |->
              Aggregate([i \in 1..Len(data) |-> parseFloat(data[i].temperature).n]),
          humidity |->
              Aggregate([i \in 1..Len(data) |-> parseFloat(data[i].humidity).n])]

\* GET /api/stats/today
GetStatsToday(up) ==
    Respond(GetRequest("GET /api/stats/today", Undef),
            IF ~up
            THEN Response(500, "Error al obtener estadisticas")
            ELSE Success(200, -1, <<>>, FALSE, <<Stats(Today(store))>>))

\* GET /
HealthCheck ==
    Respond(GetRequest("GET /", Undef), Success(200, -1, <<>>, FALSE, <<>>))

\* Every other route.
NotFound ==
    Respond(GetRequest("GET /unknown", Undef),
            Response(404, "Endpoint no encontrado"))

(* -------------------------- clock and windows -------------------------- *)

\* The clock advances by one instant.  An instant is longer than the
\* windows of both limiters (15 minutes and 1 minute), so both windows end
\* and their counts start again.
Tick ==
    /\ now < MaxTime
    /\ now' = now + 1
    /\ limiterHits' = 0
    /\ webhookHits' = 0
    /\ UNCHANGED <<env, client, store, pend, last, nreq, nresp>>

Next ==
    \/ \E rq \in client : Webhook(rq)
    \/ \E i \in 1..MaxInflight, failure \in {"none", "error", "throw"} :
            StoreInsert(i, failure)
    \/ \E i \in 1..MaxInflight : WebhookResume(i)
    \/ \E limit \in LimitInputs, up \in BOOLEAN : GetReadings(limit, up)
    \/ \E up \in BOOLEAN : GetLatest(up)
    \/ \E up \in BOOLEAN : GetStatsToday(up)
    \/ HealthCheck
    \/ NotFound
    \/ Tick

Spec == Init /\ [][Next]_vars

\* The store call of every suspended handler returns or throws, and the
\* event loop resumes every handler whose call has ended.
FairSpec ==
    /\ Spec
    /\ WF_vars(\E i \in 1..MaxInflight, failure \in {"none", "error", "throw"} :
                    StoreInsert(i, failure))
    /\ WF_vars(\E i \in 1..MaxInflight : WebhookResume(i))

(* =============================== claims ================================ *)

IsWebhook(rq) == rq.route = "POST /webhook/thingspeak"

\* Both limiters let the next push through: fewer than 100 hits in the
\* global window and fewer than 10 in the webhook window.
UnderCeilings == limiterHits < limiterMax /\ webhookHits < webhookLimiterMax

\* The push rq reaches the handler in this step.
Handled(rq) == Webhook(rq) /\ rq.parsed /\ UnderCeilings

\* The step answers rq with the status and leaves the store and the
\* suspended handlers as they were (no insert is issued).
Rejects(rq, status) ==
    /\ last'.req = rq
    /\ last'.resp.status = status
    /\ store' = store
    /\ pend' = pend

\* The numeric reading of a body field, and the range of a reading.
TempInRange(v) == v.t = "number" /\ -50 <= v.n /\ v.n <= 100

HumInRange(v) == v.t = "number" /\ 0 <= v.n /\ v.n <= 100

TempOutside(v) == v.t = "Infinity" \/ (v.t = "number" /\ (v.n < -50 \/ v.n > 100))

HumOutside(v) == v.t = "Infinity" \/ (v.t = "number" /\ (v.n < 0 \/ v.n > 100))

\* C1: a push that passes the rate limiters with an x-webhook-secret other
\* than the configured secret is answered 401 and the store keeps exactly
\* its readings, whatever the body holds; 401 comes before every 400.
C1_WrongSecretIs401 ==
    [][\A rq \in client :
          (Handled(rq) /\ rq.secret # env) => Rejects(rq, 401)]_vars

\* C1 witness: a push with a wrong secret and a valid body was answered 401.
C1_Witness ==
    /\ IsWebhook(last.req)
    /\ env = ConfiguredSecret
    /\ last.req.secret = Str(<<"w">>)
    /\ last.req.temperature = Num(100)
    /\ last.req.humidity = Num(0)
    /\ last.resp.status = 401
    /\ store = <<>>

\* C2: an authorized push whose parsed temperature is below -50 or above
\* 100, or whose parsed humidity is below 0 or above 100, is answered 400
\* and the store is unchanged: no insert is issued.
C2_OutOfRangeIs400 ==
    [][\A rq \in client :
          (/\ Handled(rq)
           /\ rq.secret = env
           /\ \/ TempOutside(parseFloat(rq.temperature))
              \/ HumOutside(parseFloat(rq.humidity)))
          => Rejects(rq, 400)]_vars

\* C2 witness: an authorized push of temperature 101 was answered 400.
C2_Witness ==
    /\ IsWebhook(last.req)
    /\ last.req.secret = env
    /\ last.req.temperature = Num(101)
    /\ last.req.humidity = Num(100)
    /\ last.resp.status = 400
    /\ store = <<>>

\* The row the push rq is to leave in the store: its numbers as pushed,
\* source 'thingspeak'.
Matches(row, rq) ==
    /\ row.temperature = parseFloat(rq.temperature)
    /\ row.humidity = parseFloat(rq.humidity)
    /\ rq.temperature.t = "number" => row.temperature = rq.temperature
    /\ rq.humidity.t = "number" => row.humidity = rq.humidity
    /\ row.source = "thingspeak"

InRangePush(rq) ==
    /\ IsWebhook(rq)
    /\ rq.parsed
    /\ TempInRange(parseFloat(rq.temperature))
    /\ HumInRange(parseFloat(rq.humidity))
    /\ rq.temperature # Undef
    /\ rq.humidity # Undef

\* C3 as stated: every authorized push with temperature in [-50, 100] and
\* humidity in [0, 100] that was not rate limited is answered 201.
C3_ValidPushIs201 ==
    (/\ InRangePush(last.req)
     /\ last.req.secret = env
     /\ last.resp.status # 429)
    => last.resp.status = 201

\* C3 amended: an authorized push in range (the four boundary values
\* included) that passes the limiters issues one insert and nothing else;
\* when that insert succeeds the store gains exactly one row, which
\* matches the push, and the handler answers 201 with that row.
C3_ValidPushStoredOnce ==
    [][/\ \A rq \in client :
            (Handled(rq) /\ rq.secret = env /\ InRangePush(rq))
            => /\ store' = store
               /\ last' = last
               /\ Len(pend') = Len(pend) + 1
               /\ pend'[Len(pend')].req = rq
               /\ pend'[Len(pend')].phase = "sent"
       /\ \A i \in 1..Len(pend) :
            (StoreInsert(i, "none") /\ pend'[i].phase = "ok")
            => /\ Len(store') = Len(store) + 1
               /\ SubSeq(store', 1, Len(store)) = store
               /\ Matches(store'[Len(store')], pend[i].req)
               /\ pend'[i].data = <<store'[Len(store')]>>
       /\ \A i \in 1..Len(pend) :
            (WebhookResume(i) /\ pend[i].phase = "ok")
            => /\ last'.req = pend[i].req
               /\ last'.resp.status = 201
               /\ last'.resp.success
               /\ last'.resp.data = pend[i].data
               /\ store' = store
               /\ \E k \in 1..Len(store) : store[k] = pend[i].data[1]]_vars

\* C3 witness: a push of the boundary values -50 and 100 was answered 201
\* with the row the store holds.
C3_Witness ==
    /\ last.resp.status = 201
    /\ last.req.temperature = Num(-50)
    /\ last.req.humidity = Num(100)
    /\ Len(store) = 1
    /\ last.resp.data = <<store[1]>>
    /\ store[1].temperature = Num(-50)
    /\ store[1].humidity = Num(100)

\* C4: the rejection of an authorized push names the first failing check
\* of the chain missing field, not a number, out of range, and the three
\* reasons differ in the 400 response: the text of a not-a-number rejection
\* is neither the text of a missing field nor the text of an out-of-range
\* rejection.
C4_FirstFailingCheckNamed ==
    LET rq == last.req
        temp == parseFloat(rq.temperature)
        hum == parseFloat(rq.humidity)
        missing == rq.temperature = Undef \/ rq.humidity = Undef
        nan == temp.t = "NaN" \/ hum.t = "NaN"
    IN  (/\ IsWebhook(rq)
         /\ rq.parsed
         /\ rq.secret = env
         /\ last.resp.status = 400)
        => /\ missing => last.resp.error = "Faltan campos requeridos"
           /\ (~missing /\ nan) =>
                 last.resp.error \notin
                     {"Faltan campos requeridos", "Valores fuera de rango"}
           /\ (~missing /\ ~nan) => last.resp.error = "Valores fuera de rango"

\* C5: GET /api/readings/latest on a store with no readings answers with
\* success and data null, not with an error; on a store with readings it
\* answers with a reading of the greatest created_at.
C5_LatestOfEmptyStoreIsNull ==
    [][(GetLatest(TRUE) /\ limiterHits < limiterMax)
       => /\ last'.resp.status = 200
          /\ last'.resp.success
          /\ store = <<>> => (last'.resp.isNull /\ last'.resp.data = <<>>)
          /\ store # <<>> =>
                /\ Len(last'.resp.data) = 1
                /\ \E k \in 1..Len(store) : store[k] = last'.resp.data[1]
                /\ \A k \in 1..Len(store) :
                       store[k].created_at <= last'.resp.data[1].created_at]_vars

\* C6: whatever integer limit L the caller of GET /api/readings supplies
\* (0, negative and above 1000 included), the response holds at most L
\* readings and at most 1000; without a limit it holds at most 100; count
\* is the number of readings in data.
C6_LimitRespected ==
    LET rq == last.req
        L == parseInt(rq.limit)
    IN  (rq.route = "GET /api/readings" /\ last.resp.success)
        => /\ last.resp.count = Len(last.resp.data)
           /\ Len(last.resp.data) <= 1000
           /\ L.t = "number" => Len(last.resp.data) <= L.n
           /\ rq.limit = Undef => Len(last.resp.data) <= 100

\* The hundredths a string of the form [-]d+.dd denotes, and that form.
IsFixed2(s) ==
    LET body == IF s # <<>> /\ Head(s) = "-" THEN Tail(s) ELSE s
        k == DigitPrefixLen(body)
    IN  /\ k >= 1
        /\ Len(body) = k + 3
        /\ body[k + 1] = "."
        /\ IsDigit(body[k + 2])
        /\ IsDigit(body[k + 3])

Fixed2Value(s) ==
    LET neg == Head(s) = "-"
        body == IF neg THEN Tail(s) ELSE s
        k == DigitPrefixLen(body)
        mag == 100 * DigitsValue(SubSeq(body, 1, k))
                 + DigitsValue(SubSeq(body, k + 2, k + 3))
    IN  IF neg THEN -mag ELSE mag

RECURSIVE SumOver(_, _)
SumOver(f, S) ==
    IF S = {} THEN 0
    ELSE LET x == CHOOSE y \in S : TRUE IN f[x] + SumOver(f, S \ {x})

Abs(x) == IF x < 0 THEN -x ELSE x

\* agg is the minimum, the maximum and the average, to the nearest
\* hundredth, of the values f[i], i in the non-empty set w.
AggregateOf(agg, f, w) ==
    /\ agg.min.t = "number"
    /\ \E i \in w : f[i] = agg.min.n
    /\ \A i \in w : agg.min.n <= f[i]
    /\ agg.max.t = "number"
    /\ \E i \in w : f[i] = agg.max.n
    /\ \A i \in w : agg.max.n >= f[i]
    /\ agg.avg.t = "string"
    /\ IsFixed2(agg.avg.s)
    /\ 2 * Abs(Cardinality(w) * Fixed2Value(agg.avg.s) - 100 * SumOver(f, w))
          <= Cardinality(w)
    /\ (Head(agg.avg.s) = "-") = (SumOver(f, w) < 0)

NullAggregate == [min |-> Null, max |-> Null, avg |-> Null]

\* C7: GET /api/stats/today over an empty window answers count 0 with
\* min, max and avg null for temperature and humidity; over a non-empty
\* window count is the number of its readings, min and max are the least
\* and the greatest stored value and avg is sum / count to 2 decimals.
C7_StatsOfWindow ==
    [][(GetStatsToday(TRUE) /\ limiterHits < limiterMax)
       => LET w == {i \in 1..Len(store) : store[i].created_at >= StartOfDay(now)}
              temps == [i \in 1..Len(store) |-> store[i].temperature.n]
              hums == [i \in 1..Len(store) |-> store[i].humidity.n]
          IN  /\ last'.resp.status = 200
              /\ last'.resp.success
              /\ Len(last'.resp.stats) = 1
              /\ last'.resp.stats[1].count = Cardinality(w)
              /\ store' = store
              /\ IF w = {}
                 THEN /\ last'.resp.stats[1].temperature = NullAggregate
                      /\ last'.resp.stats[1].humidity = NullAggregate
                 ELSE /\ AggregateOf(last'.resp.stats[1].temperature, temps, w)
                      /\ AggregateOf(last'.resp.stats[1].humidity, hums, w)]_vars

\* C7 witness: the stats of the window {20, 25, 30} are min 20, max 30,
\* avg 25.00.
C7_Witness ==
    /\ last.req.route = "GET /api/stats/today"
    /\ last.resp.stats # <<>>
    /\ last.resp.stats[1].count = 3
    /\ last.resp.stats[1].temperature =
          [min |-> Num(20), max |-> Num(30),
           avg |-> Str(<<"2", "5", ".", "0", "0">>)]
    /\ {store[i].temperature.n : i \in 1..Len(store)} = {20, 25, 30}

NumSent(p) == Cardinality({i \in 1..Len(p) : p[i].phase = "sent"})

\* C9: when the insert of an authorized, valid push fails (an error result
\* or an exception), the handler answers 500 and never 201, and the store
\* is unchanged; an insert is issued only by the arrival of a request, one
\* at most, so a failed insert is never issued again.
C9_FailedAppendIs500 ==
    [][/\ \A i \in 1..Len(pend) :
            (WebhookResume(i) /\ pend[i].phase \in {"error", "throw"})
            => /\ last'.req = pend[i].req
               /\ last'.resp.status = 500
               /\ ~last'.resp.success
               /\ store' = store
               /\ NumSent(pend') = NumSent(pend)
       /\ \A i \in 1..Len(pend), failure \in {"error", "throw"} :
            StoreInsert(i, failure)
            => /\ store' = store
               /\ pend'[i].phase \in {"error", "throw"}
       /\ NumSent(pend') > NumSent(pend)
            => /\ nreq' = nreq + 1
               /\ NumSent(pend') = NumSent(pend) + 1]_vars

\* C9 witness: an authorized push in range, stamped by the server, was
\* answered 500 after its insert failed, and the store holds nothing.
C9_Witness ==
    /\ InRangePush(last.req)
    /\ last.req.secret = env
    /\ last.req.created_at = Undef
    /\ last.resp = Response(500, "Error al guardar datos")
    /\ store = <<>>
    /\ pend = <<>>

\* C10: every reading in the store has a temperature in [-50, 100] and a
\* humidity in [0, 100], both numbers (not NaN), and source 'thingspeak'.
C10_StoredReadingsInRange ==
    \A k \in 1..Len(store) :
        /\ store[k].temperature.t = "number"
        /\ -50 <= store[k].temperature.n
        /\ store[k].temperature.n <= 100
        /\ store[k].humidity.t = "number"
        /\ 0 <= store[k].humidity.n
        /\ store[k].humidity.n <= 100
        /\ store[k].source = "thingspeak"

\* C10 witness: after an accepted and a rejected push the store holds the
\* reading of the accepted one, at the bounds of both ranges.
C10_Witness ==
    /\ nreq = 2
    /\ Len(store) = 1
    /\ store[1].temperature = Num(100)
    /\ store[1].humidity = Num(0)
    /\ last.resp.status = 429

\* The push rq passes the secret check and the presence, numeric and range
\* checks.
PassesChecks(rq) == rq.secret = env /\ InRangePush(rq)

\* C11: within one ingestion request the order is secret check, validation,
\* insert, acknowledgement: a handler is at or past its insert only when the
\* push passed every check; a push failing a check is answered 401 or 400
\* at once and never reaches the insert; the store changes only by the
\* insert of a suspended handler, in a step that sends no response; 201 is
\* sent only by a handler whose insert has returned its row without error.
C11_GuardValidateAppendAck ==
    [][/\ \A i \in 1..Len(pend') : PassesChecks(pend'[i].req)
       /\ \A rq \in client :
            (Handled(rq) /\ ~PassesChecks(rq))
            => /\ Rejects(rq, IF rq.secret # env THEN 401 ELSE 400)
               /\ nresp' = nresp + 1
       /\ store' # store
            => /\ nresp' = nresp
               /\ last' = last
               /\ \E i \in 1..Len(pend) :
                    /\ pend[i].phase = "sent"
                    /\ pend'[i].phase = "ok"
                    /\ pend'[i].data = <<store'[Len(store')]>>
       /\ (nresp' # nresp /\ last'.resp.status = 201)
            => /\ store' = store
               /\ \E i \in 1..Len(pend) :
                    /\ pend[i].phase = "ok"
                    /\ pend[i].req = last'.req
                    /\ pend' = RemoveAt(pend, i)
                    /\ \E k \in 1..Len(store) : store[k] = pend[i].data[1]
       /\ \A i \in 1..Len(pend) :
            (Len(pend') = Len(pend) /\ pend'[i] # pend[i])
            => pend[i].phase = "sent" /\ pend'[i].phase # "sent"]_vars

\* C11 witness: the insert of one push has returned its row and the handler
\* has not answered yet, while a later push with a wrong secret was answered
\* 401 and added nothing.
C11_Witness ==
    /\ Len(pend) = 1
    /\ pend[1].phase = "ok"
    /\ store = pend[1].data
    /\ IsWebhook(last.req)
    /\ last.req.secret # env
    /\ last.resp.status = 401
    /\ nreq = 2
    /\ nresp = 1

\* C12: a push without an x-webhook-secret header is answered 401 under
\* every configuration, the one without a WEBHOOK_SECRET included, and
\* stores nothing.
C12_MissingSecretIs401 ==
    [][\A rq \in client :
          (Handled(rq) /\ rq.secret = Undef) => Rejects(rq, 401)]_vars

\* The instant a created_at value denotes, -1 when it denotes none.
TimestampOf(v) == IF v.t = "string" THEN ParseTimestamp(v.s) ELSE -1

\* C13: the row a handler hands to the store has a valid timestamp: the
\* created_at of the producer when that is present and parseable, an instant
\* of the server otherwise; no unparseable created_at reaches the store.
C13_StoredTimestampValid ==
    \A i \in 1..Len(pend) :
        LET given == TimestampOf(pend[i].req.created_at)
            sent == TimestampOf(pend[i].row.created_at)
        IN  /\ sent >= 0
            /\ given >= 0 => sent = given
            /\ given < 0 => sent <= now

\* C14: the statistics of GET /api/stats/today are those of exactly the
\* readings stamped from the start of the current day up to the time of the
\* request: a reading stamped earlier, or later than the request, counts in
\* none of count, min, max and avg.
C14_StatsWindowEndsNow ==
    [][(GetStatsToday(TRUE) /\ limiterHits < limiterMax)
       => LET w == {i \in 1..Len(store) :
                      /\ store[i].created_at >= StartOfDay(now)
                      /\ store[i].created_at <= now}
              temps == [i \in 1..Len(store) |-> store[i].temperature.n]
              hums == [i \in 1..Len(store) |-> store[i].humidity.n]
          IN  /\ last'.resp.stats[1].count = Cardinality(w)
              /\ IF w = {}
                 THEN /\ last'.resp.stats[1].temperature = NullAggregate
                      /\ last'.resp.stats[1].humidity = NullAggregate
                 ELSE /\ AggregateOf(last'.resp.stats[1].temperature, temps, w)
                      /\ AggregateOf(last'.resp.stats[1].humidity, hums, w)]_vars

\* The effective limit of GET /api/readings: the limit of the query when it
\* is a number other than 0, else 100, and 1000 at most.
EffectiveN(limit) ==
    LET L == parseInt(limit)
        n == IF L.t = "number" /\ L.n # 0 THEN L.n ELSE 100
    IN  IF n > 1000 THEN 1000 ELSE n

\* C15: GET /api/readings with effective limit N answers with the N readings
\* of the greatest created_at (all readings when the store holds fewer),
\* oldest first, that is by non-decreasing created_at, and the store is
\* unchanged.
C15_NewestNOldestFirst ==
    [][\A limit \in LimitInputs :
          (/\ GetReadings(limit, TRUE)
           /\ limiterHits < limiterMax
           /\ EffectiveN(limit) >= 0)
          => LET data == last'.resp.data
                 N == EffectiveN(limit)
             IN  /\ last'.resp.status = 200
                 /\ last'.resp.success
                 /\ Len(data) = IF N < Len(store) THEN N ELSE Len(store)
                 /\ \E ix \in SUBSET (1..Len(store)) :
                        /\ Cardinality(ix) = Len(data)
                        /\ {data[k] : k \in 1..Len(data)} = {store[i] : i \in ix}
                        /\ \A i \in ix, j \in (1..Len(store)) \ ix :
                               store[i].created_at >= store[j].created_at
                 /\ \A k \in 1..(Len(data) - 1) :
                        data[k].created_at <= data[k + 1].created_at
                 /\ store' = store]_vars

\* C15 witness: of three readings stamped at three instants the two newest
\* were returned for limit 2, the older of them first.
C15_Witness ==
    /\ last.req = GetRequest("GET /api/readings", Str(<<"2">>))
    /\ last.resp.success
    /\ Len(store) = 3
    /\ Len(last.resp.data) = 2
    /\ last.resp.data[1] = store[2]
    /\ last.resp.data[2] = store[3]
    /\ store[1].created_at < store[2].created_at
    /\ store[2].created_at < store[3].created_at

\* C16: every insert that succeeds adds exactly one row to the store and
\* touches no other row and no other handler, identical payloads with one
\* created_at included and whatever the order in which suspended handlers
\* are served; the rows of two handlers are two rows of the store, and the
\* 201 of a handler carries the row of that handler.
C16_PushesAreIndependentInserts ==
    [][/\ \A i \in 1..Len(pend) :
            (/\ Len(pend') = Len(pend)
             /\ pend[i].phase = "sent"
             /\ pend'[i].phase = "ok")
            => /\ Len(store') = Len(store) + 1
               /\ SubSeq(store', 1, Len(store)) = store
               /\ \A k \in 1..Len(store) : store[k] # store'[Len(store')]
               /\ pend'[i].data = <<store'[Len(store')]>>
               /\ Matches(store'[Len(store')], pend[i].req)
               /\ \A j \in 1..Len(pend) : j # i => pend'[j] = pend[j]
       /\ \A i, j \in 1..Len(pend') :
            (i # j /\ pend'[i].phase = "ok" /\ pend'[j].phase = "ok")
            => /\ pend'[i].data # pend'[j].data
               /\ \E k \in 1..Len(store') : <<store'[k]>> = pend'[i].data
       /\ \A i \in 1..Len(pend) :
            (WebhookResume(i) /\ pend[i].phase = "ok")
            => /\ last'.resp.data = pend[i].data
               /\ Len(store') = Len(store)]_vars

\* C16 witness: two pushes of one payload and one created_at are both
\* stored, the insert of the second served first, and the store holds two
\* rows for them.
C16_Witness ==
    /\ Len(pend) = 2
    /\ pend[1].req = pend[2].req
    /\ pend[1].req.created_at = Str(toISOString(MaxTime))
    /\ pend[1].phase = "ok"
    /\ pend[2].phase = "ok"
    /\ store = pend[2].data \o pend[1].data
    /\ store[1] # store[2]

\* C17: the store is append-only: every step keeps the readings the store
\* holds, in place and unmodified; a step in which a request arrives or a
\* response is sent (every outcome of the ingestion guard and validation,
\* the three queries, the health check, an unknown route) leaves the store
\* exactly as it was.
C17_StoreAppendOnly ==
    [][/\ Len(store') >= Len(store)
       /\ SubSeq(store', 1, Len(store)) = store
       /\ (nreq' # nreq \/ nresp' # nresp) => store' = store]_vars

\* C17 witness: a third reading was appended after the two the store held,
\* and a query answered since.
C17_Witness ==
    /\ Len(store) = 3
    /\ SubSeq(store, 1, 2) \in StartStores
    /\ ~IsWebhook(last.req)
    /\ last.resp.status = 200
    /\ nreq = 2

\* The statuses of the responses of the ingestion endpoint.
WebhookStatuses == {201, 400, 401, 429, 500}

\* C18: every request is either answered once or still in its handler, a
\* step sends at most one response, a handler ends by its one response with
\* status 201, 400, 401, 429 or 500, and, the store call returning or
\* throwing, every request received is eventually answered.
C18_EveryPushAnsweredOnce ==
    /\ [](nreq = nresp + Len(pend))
    /\ [][/\ nresp' \in {nresp, nresp + 1}
          /\ Len(pend') < Len(pend)
               => /\ Len(pend') = Len(pend) - 1
                  /\ nresp' = nresp + 1
          /\ (nresp' # nresp /\ IsWebhook(last'.req))
               => last'.resp.status \in WebhookStatuses]_vars
    /\ \A n \in 1..MaxRequests : (nreq >= n) ~> (nresp >= n)

\* C18 witness: a push whose insert threw was answered 500 and no handler
\* is left suspended.
C18_Witness ==
    /\ IsWebhook(last.req)
    /\ PassesChecks(last.req)
    /\ last.resp = InternalError
    /\ pend = <<>>
    /\ nreq = nresp
    /\ nreq >= 1

====
